---- MODULE Spec2Model ----
(***************************************************************************)
(* Widget / Screen / IRCommandManager / UIManager of the dt_charger UI     *)
(* framework, in its three generations:                                    *)
(*   "orig"      new1/examples/dt_charger/ui_framework.h                   *)
(*   "refactor"  new1/examples/dt_charger/refactor/UI_Framework.h          *)
(*   "refactor2" new1/examples/dt_charger/refactor/refactor2/UI_Framework.h*)
(* Both refactors use refactor/IR_CommandManager.h.                        *)
(***************************************************************************)
EXTENDS Integers, Sequences, FiniteSets, TLC

VARIABLES
    variant,              \* which generation of the framework is compiled
    screens,              \* UIManager::screens (Screen* vector; Screen = widgets + focus index)
    currentScreenIndex,   \* UIManager::currentScreenIndex / currentScreenType
    display,              \* Adafruit_SSD1306 frame buffer: the set of widget images in it
    panel,                \* what display.display() last sent to the physical panel
    commandMappings,      \* IRCommandManager::commandMappings
    lastCode,             \* IRCommandManager::lastCode
    lastCommandTime,      \* IRCommandManager::lastCommandTime
    lastUpdateTime,       \* UIManager::lastUpdateTime (ui_framework.h)
    now,                  \* millis()
    lastOp,               \* history: the last operation called and the calls it made
    rot,                  \* history: the current run of same-direction focus moves
    navigated,            \* history: a focus move has happened on the Screen
    unchanged,            \* history: per widget, drawn and not changed since
    redrawn,              \* history: a widget was drawn again with nothing changed since
    prev,                 \* history: the last successful handleCommand
    lastWork,             \* history: millis() of the last throttled update() that did its work
    held,                 \* history: the last code other than the repeat code that update() decoded
    observe               \* which of rot, unchanged, prev, held this specification keeps

vars == <<variant, screens, currentScreenIndex, display, panel, commandMappings,
          lastCode, lastCommandTime, lastUpdateTime, now, lastOp, rot, navigated,
          unchanged, redrawn, prev, lastWork, held, observe>>

focusHist == <<rot, navigated>>
drawHist  == <<unchanged, redrawn>>
cmdVars   == <<commandMappings, lastCode, lastCommandTime, prev>>
uiVars    == <<currentScreenIndex, display, panel, lastUpdateTime, lastWork, held>>

Variants == {"orig", "refactor", "refactor2"}

-----------------------------------------------------------------------------
(* 32-bit unsigned words (uint32_t, size_t and unsigned long on the ESP32) *)
(* as <<high half, low half>>, so that arithmetic wraps at 2^32.           *)

Half == 2 ^ 16

U32(n) == <<n \div Half, n % Half>>

\* the conversion of an int to size_t: negative values wrap to 2^32 + i
U32FromInt(i) ==
    IF i >= 0 THEN U32(i)
    ELSE <<(Half - 1) - ((-i - 1) \div Half), (Half - 1) - ((-i - 1) % Half)>>

U32Add(a, b) ==
    LET lo == a[2] + b[2]
        hi == a[1] + b[1] + (lo \div Half)
    IN  <<hi % Half, lo % Half>>

U32Sub(a, b) ==
    LET lo == a[2] - b[2]
        borrow == IF lo < 0 THEN 1 ELSE 0
        hi == a[1] - b[1] - borrow
    IN  <<(hi + Half) % Half, (lo + Half) % Half>>

U32Ge(a, b) == a[1] > b[1] \/ (a[1] = b[1] /\ a[2] >= b[2])

\* a % n for a divisor n < 2^15, as a number
U32Mod(a, n) == (((a[1] % n) * (Half % n)) + (a[2] % n)) % n

-----------------------------------------------------------------------------
(* IR codes                                                                *)

UP     == <<255, 25245>>      \* 0xFF629D
DOWN   == <<255, 43095>>      \* 0xFFA857
OK     == <<255, 765>>        \* 0xFF02FD
RED    == <<247, 8415>>       \* 0xF720DF
BLUE   == <<103, 8415>>       \* 0x6720DF
REPEAT == <<65535, 65535>>    \* 0xFFFFFFFF, the decoder's "button held" code
ZERO   == <<0, 0>>            \* 0, the initial value of lastCode

NoCode == <<>>                \* history only: no code involved

-----------------------------------------------------------------------------
(* Widget                                                                  *)

MaxWidgets == 3

Values == {0, 1}     \* the payload (text, label, voltage), abstracted to two values

\* the refactored headers define Label and Button only
WidgetKinds == IF variant = "orig"
               THEN {"Label", "Button", "BatteryWidget", "FloatDisplay"}
               ELSE {"Label", "Button"}

\* Widget::Widget: focused(false), dirty(true); the payload starts at 0
NewWidget(kind) == [kind |-> kind, focused |-> FALSE, dirty |-> TRUE, val |-> 0]

Widget_setFocus(w, focus) == [w EXCEPT !.focused = focus, !.dirty = TRUE]

Widget_clearDirty(w) == [w EXCEPT !.dirty = FALSE]

\* what draw() puts into the frame buffer for widget number i (0-based)
Widget_draw(w, i) == [idx |-> i, kind |-> w.kind, focused |-> w.focused, val |-> w.val]

\* Button::handleInput: TRUE iff the callback runs. The original Button does
\* not test its focused flag; the refactored one does. Other kinds ignore input.
Widget_handleInput(w, code) ==
    /\ w.kind = "Button"
    /\ code = OK
    /\ (variant = "orig" \/ w.focused)

\* mutant: setText with the text the Label already has clears its dirty flag
Label_setTextClears(w, newText) ==
    IF w.val # newText THEN [w EXCEPT !.val = newText, !.dirty = TRUE]
    ELSE [w EXCEPT !.dirty = FALSE]

\* Label::setText: a change of text marks the widget dirty, the same text does not
Label_setText(w, newText) ==
    IF w.val # newText THEN [w EXCEPT !.val = newText, !.dirty = TRUE] ELSE w

\* mutant: setValue marks the widget dirty whatever the value
FloatDisplay_setValueAlways(w, newValue) == [w EXCEPT !.val = newValue, !.dirty = TRUE]

\* FloatDisplay::setValue (ui_framework.h only): as Label::setText
FloatDisplay_setValue(w, newValue) ==
    IF w.val # newValue THEN [w EXCEPT !.val = newValue, !.dirty = TRUE] ELSE w

\* Button::setLabel (ui_framework.h only): always marks dirty
Button_setLabel(w, newLabel) == [w EXCEPT !.val = newLabel, !.dirty = TRUE]

\* BatteryWidget::updateValues: always marks dirty
BatteryWidget_updateValues(w, voltage) == [w EXCEPT !.val = voltage, !.dirty = TRUE]

-----------------------------------------------------------------------------
(* Screen                                                                  *)

NewScreen == [widgets |-> <<>>, focusedWidgetIndex |-> 0]

\* mutant: every added widget is given the focus, not only the first
Screen_addWidgetFocusAll(scr, w) ==
    [scr EXCEPT !.widgets = Append(scr.widgets, Widget_setFocus(w, TRUE))]

Screen_addWidget(scr, w) ==
    LET n == Len(scr.widgets) + 1
    IN  [scr EXCEPT !.widgets =
            Append(scr.widgets, IF n = 1 THEN Widget_setFocus(w, TRUE) ELSE w)]

\* ui_framework.h changeFocus: two branches on the sign of direction
NextIndexOrig(idx, n, direction) ==
    IF direction > 0
    THEN U32Mod(U32Add(U32(idx), U32(1)), n)
    ELSE U32Mod(U32Sub(U32Add(U32(idx), U32(n)), U32(1)), n)

\* mutant: the "+ widgets.size()" is left out, so -1 wraps through 2^32
NextIndexNoSize(idx, n, direction) ==
    U32Mod(U32Add(U32(idx), U32FromInt(direction)), n)

\* refactor changeFocus / refactor2 navigate:
\* (focusedWidgetIndex + widgets.size() + direction) % widgets.size() in size_t
NextIndexRefactor(idx, n, direction) ==
    U32Mod(U32Add(U32Add(U32(idx), U32(n)), U32FromInt(direction)), n)

NextIndex(idx, n, direction) ==
    IF variant = "orig" THEN NextIndexOrig(idx, n, direction)
    ELSE NextIndexRefactor(idx, n, direction)

\* mutant: the focus move marks every widget of the Screen dirty
Screen_changeFocusDirtyAll(scr, direction) ==
    IF scr.widgets = <<>> THEN scr
    ELSE
        LET old == scr.focusedWidgetIndex
            new == NextIndex(old, Len(scr.widgets), direction)
        IN  [widgets |-> [i \in 1..Len(scr.widgets) |->
                            Widget_setFocus(scr.widgets[i], i = new + 1)],
             focusedWidgetIndex |-> new]

Screen_changeFocus(scr, direction) ==
    IF scr.widgets = <<>> THEN scr
    ELSE
        LET old == scr.focusedWidgetIndex
            w1  == [scr.widgets EXCEPT ![old + 1] = Widget_setFocus(@, FALSE)]
            new == NextIndex(old, Len(scr.widgets), direction)
            w2  == [w1 EXCEPT ![new + 1] = Widget_setFocus(@, TRUE)]
        IN  [widgets |-> w2, focusedWidgetIndex |-> new]

\* mutant: the navigation codes move the focus and are handed to the widget too
Screen_handleInputOrigAlsoForward(scr, code) ==
    LET i == scr.focusedWidgetIndex
        d == IF code = UP THEN -1 ELSE IF code = DOWN THEN 1 ELSE 0
    IN  [scr |-> IF d = 0 THEN scr ELSE Screen_changeFocus(scr, d), dir |-> d,
         fwd |-> IF i < Len(scr.widgets) THEN <<i>> ELSE <<>>, cbs |-> <<>>]

\* Screen::handleInput. Result: the Screen afterwards, the focus move made
\* (0 = none), the widgets the code was handed to and the callbacks that ran.
Screen_handleInputOrig(scr, code) ==
    IF code = UP
    THEN [scr |-> Screen_changeFocus(scr, -1), dir |-> -1, fwd |-> <<>>, cbs |-> <<>>]
    ELSE IF code = DOWN
    THEN [scr |-> Screen_changeFocus(scr, 1), dir |-> 1, fwd |-> <<>>, cbs |-> <<>>]
    ELSE IF scr.focusedWidgetIndex < Len(scr.widgets)
    THEN LET i == scr.focusedWidgetIndex
         IN  [scr |-> scr, dir |-> 0, fwd |-> <<i>>,
              cbs |-> IF Widget_handleInput(scr.widgets[i + 1], code) THEN <<i>> ELSE <<>>]
    ELSE [scr |-> scr, dir |-> 0, fwd |-> <<>>, cbs |-> <<>>]

\* mutant: no test for an empty Screen; the code goes to widgets[focusedWidgetIndex]
Screen_handleInputRefactorNoGuard(scr, code) ==
    LET i == scr.focusedWidgetIndex
    IN  [scr |-> scr, dir |-> 0, fwd |-> <<i>>,
         cbs |-> IF i < Len(scr.widgets) /\ Widget_handleInput(scr.widgets[i + 1], code)
                 THEN <<i>> ELSE <<>>]

Screen_handleInputRefactor(scr, code) ==
    IF scr.widgets # <<>>
    THEN LET i == scr.focusedWidgetIndex
         IN  [scr |-> scr, dir |-> 0, fwd |-> <<i>>,
              cbs |-> IF Widget_handleInput(scr.widgets[i + 1], code) THEN <<i>> ELSE <<>>]
    ELSE [scr |-> scr, dir |-> 0, fwd |-> <<>>, cbs |-> <<>>]

\* mutant: the code is handed to every widget of the Screen; a Button that
\* does not test its focused flag then runs its callback
Screen_handleInputAll(scr, code) ==
    LET all == [i \in 1..Len(scr.widgets) |-> i - 1]
    IN  [scr |-> scr, dir |-> 0, fwd |-> all,
         cbs |-> SelectSeq(all, LAMBDA i : Widget_handleInput(scr.widgets[i + 1], code))]

Screen_handleInput(scr, code) ==
    IF variant = "orig" THEN Screen_handleInputOrig(scr, code)
    ELSE Screen_handleInputRefactor(scr, code)

\* Screen::draw: in order, every dirty widget is drawn and its flag cleared.
\* Result: the widgets afterwards and the indices drawn, in drawing order.
RECURSIVE DrawFrom(_, _, _)
DrawFrom(ws, i, drawn) ==
    IF i > Len(ws) THEN [widgets |-> ws, drawn |-> drawn]
    ELSE IF ws[i].dirty
    THEN DrawFrom([ws EXCEPT ![i] = Widget_clearDirty(@)], i + 1, Append(drawn, i - 1))
    ELSE DrawFrom(ws, i + 1, drawn)

\* mutant: every widget is drawn, dirty or not
Screen_drawAll(scr) ==
    [widgets |-> [i \in 1..Len(scr.widgets) |-> Widget_clearDirty(scr.widgets[i])],
     drawn |-> [i \in 1..Len(scr.widgets) |-> i - 1]]

Screen_draw(scr) == DrawFrom(scr.widgets, 1, <<>>)

-----------------------------------------------------------------------------
(* IRCommandManager                                                        *)

REPEAT_DELAY == 250

NullHandler == 0            \* an empty std::function
Handlers == {1, 2}          \* the handlers the application registers

Mapping(code, handler) == [code |-> code, handler |-> handler]

\* the range-for of handleCommand: the index of the first mapping with this
\* code, 0 when there is none
RECURSIVE FindFrom(_, _, _)
FindFrom(mappings, code, i) ==
    IF i > Len(mappings) THEN 0
    ELSE IF mappings[i].code = code THEN i
    ELSE FindFrom(mappings, code, i + 1)

\* mutant: the scan keeps going, so the last mapping with the code wins
RECURSIVE FindLastFrom(_, _, _)
FindLastFrom(mappings, code, i) ==
    IF i > Len(mappings) THEN 0
    ELSE LET later == FindLastFrom(mappings, code, i + 1)
         IN  IF later # 0 THEN later
             ELSE IF mappings[i].code = code THEN i ELSE 0

FindMappingLast(mappings, code) == FindLastFrom(mappings, code, 1)

FindMapping(mappings, code) == FindFrom(mappings, code, 1)

\* mutant: the time of the call is stored before the table is searched
HandleCommandStampFirst(mappings, last, lastTime, code, currentTime) ==
    LET c == IF code = REPEAT THEN last ELSE code
        k == FindMapping(mappings, c)
    IN  IF code = REPEAT /\ ~(/\ last # ZERO
                              /\ U32Ge(U32Sub(U32(currentTime), U32(lastTime)),
                                       U32(REPEAT_DELAY)))
        THEN [ret |-> FALSE, lastCode |-> last, lastCommandTime |-> lastTime,
              invoked |-> <<>>]
        ELSE IF k = 0
        THEN [ret |-> FALSE, lastCode |-> last, lastCommandTime |-> currentTime,
              invoked |-> <<>>]
        ELSE [ret |-> TRUE, lastCode |-> c, lastCommandTime |-> currentTime,
              invoked |-> <<mappings[k].handler>>]

\* mutant: an accepted repeat does not restart the delay window
HandleCommandNoRestart(mappings, last, lastTime, code, currentTime) ==
    LET accepted == /\ last # ZERO
                    /\ U32Ge(U32Sub(U32(currentTime), U32(lastTime)), U32(REPEAT_DELAY))
        c == IF code = REPEAT THEN last ELSE code
        k == FindMapping(mappings, c)
    IN  IF (code = REPEAT /\ ~accepted) \/ k = 0
        THEN [ret |-> FALSE, lastCode |-> last, lastCommandTime |-> lastTime,
              invoked |-> <<>>]
        ELSE [ret |-> TRUE, lastCode |-> c,
              lastCommandTime |-> IF code = REPEAT THEN lastTime ELSE currentTime,
              invoked |-> <<mappings[k].handler>>]

\* IRCommandManager::handleCommand(code) called at millis() = currentTime with
\* the members (mappings, last, lastTime). Result: the return value, the
\* members afterwards and the handlers invoked.
IRCommandManager_handleCommand(mappings, last, lastTime, code, currentTime) ==
    LET accepted == /\ last # ZERO
                    /\ U32Ge(U32Sub(U32(currentTime), U32(lastTime)), U32(REPEAT_DELAY))
        c == IF code = REPEAT THEN last ELSE code
        k == FindMapping(mappings, c)
    IN  IF code = REPEAT /\ ~accepted
        THEN [ret |-> FALSE, lastCode |-> last, lastCommandTime |-> lastTime,
              invoked |-> <<>>]
        ELSE IF k = 0
        THEN [ret |-> FALSE, lastCode |-> last, lastCommandTime |-> lastTime,
              invoked |-> <<>>]
        ELSE [ret |-> TRUE, lastCode |-> c, lastCommandTime |-> currentTime,
              invoked |-> IF mappings[k].handler # NullHandler
                          THEN <<mappings[k].handler>> ELSE <<>>]

-----------------------------------------------------------------------------
(* UIManager                                                               *)

UPDATE_INTERVAL == 50

NullScreen == [null |-> TRUE]       \* a nullptr in UIManager::screens

\* ui_framework.h getScreen(type)
UIManager_getScreen(scrs, type) ==
    IF type < Len(scrs) THEN scrs[type + 1] ELSE NullScreen

\* ui_framework.h addScreen(type, screen): the vector grows with nullptr up to
\* the slot, the slot's Screen is deleted and replaced
UIManager_addScreenOrig(scrs, type, screen) ==
    LET grown == IF type >= Len(scrs)
                 THEN scrs \o [k \in 1..(type + 1 - Len(scrs)) |-> NullScreen]
                 ELSE scrs
    IN  [grown EXCEPT ![type + 1] = screen]

\* mutant: the Screen in the slot is dropped without delete
UIManager_addScreenOrigLeak(scrs, type) == [screens |-> <<>>, widgets |-> <<>>]

\* ui_framework.h addScreen(type, screen), the delete it makes: the Screen in
\* the slot, and through Screen::~Screen each of its widgets
UIManager_addScreenOrigDeleted(scrs, type) ==
    IF type < Len(scrs) /\ scrs[type + 1] # NullScreen
    THEN [screens |-> <<scrs[type + 1]>>, widgets |-> scrs[type + 1].widgets]
    ELSE [screens |-> <<>>, widgets |-> <<>>]

\* refactor / refactor2 addScreen(screen)
UIManager_addScreenRefactor(scrs, screen) == Append(scrs, screen)

\* mutant: the display is cleared whether or not the slot holds a Screen
UIManager_setScreenAlwaysClear(scrs, current, buffer, index) ==
    IF index < Len(scrs) /\ scrs[index + 1] # [null |-> TRUE]
    THEN [current |-> index, display |-> {}]
    ELSE [current |-> current, display |-> {}]

\* setScreen(index): the selector and the frame buffer afterwards.
\* refactor2 does not clear the display.
UIManager_setScreen(scrs, current, buffer, index) ==
    IF variant = "orig"
    THEN IF index < Len(scrs) /\ scrs[index + 1] # NullScreen
         THEN [current |-> index, display |-> {}]
         ELSE [current |-> current, display |-> buffer]
    ELSE IF index < Len(scrs)
    THEN [current |-> index, display |-> IF variant = "refactor" THEN {} ELSE buffer]
    ELSE [current |-> current, display |-> buffer]

\* mutant: update() is not throttled
UIManager_updateAlwaysDue(currentTime, lastTime) == TRUE

\* ui_framework.h update(): !(currentTime - lastUpdateTime < UPDATE_INTERVAL)
UIManager_updateDue(currentTime, lastTime) ==
    U32Ge(U32Sub(U32(currentTime), U32(lastTime)), U32(UPDATE_INTERVAL))

NoInput(scrs, last, lastTime) ==
    [screens |-> scrs, lastCode |-> last, lastCommandTime |-> lastTime,
     ret |-> FALSE, invoked |-> <<>>, input |-> <<>>, fwd |-> <<>>, cbs |-> <<>>]

\* mutant: the decoded code goes to the Screen whether or not a command matched
InputStageBoth(scrs, current, mappings, last, lastTime, decoded, currentTime) ==
    LET r == IRCommandManager_handleCommand(mappings, last, lastTime, decoded, currentTime)
        h == Screen_handleInput(scrs[current + 1], decoded)
    IN  IF decoded = NoCode THEN NoInput(scrs, last, lastTime)
        ELSE IF current < Len(scrs)
        THEN [screens |-> [scrs EXCEPT ![current + 1] = h.scr],
              lastCode |-> r.lastCode, lastCommandTime |-> r.lastCommandTime,
              ret |-> r.ret, invoked |-> r.invoked,
              input |-> <<current>>, fwd |-> h.fwd, cbs |-> h.cbs]
        ELSE [NoInput(scrs, r.lastCode, r.lastCommandTime)
                 EXCEPT !.ret = r.ret, !.invoked = r.invoked]

\* mutant: a code that no command matched is remembered as the last code
InputStageRemembers(scrs, current, mappings, last, lastTime, decoded, currentTime) ==
    LET r == IRCommandManager_handleCommand(mappings, last, lastTime, decoded, currentTime)
        h == Screen_handleInput(scrs[current + 1], decoded)
    IN  IF decoded = NoCode THEN NoInput(scrs, last, lastTime)
        ELSE IF ~r.ret /\ current < Len(scrs)
        THEN [screens |-> [scrs EXCEPT ![current + 1] = h.scr],
              lastCode |-> IF decoded = REPEAT THEN last ELSE decoded,
              lastCommandTime |-> r.lastCommandTime,
              ret |-> r.ret, invoked |-> r.invoked,
              input |-> <<current>>, fwd |-> h.fwd, cbs |-> h.cbs]
        ELSE [NoInput(scrs, r.lastCode, r.lastCommandTime)
                 EXCEPT !.ret = r.ret, !.invoked = r.invoked]

\* refactor / refactor2 update(), input stage: a decoded code is offered to
\* the IRCommandManager and, if no command matched, to the current Screen
InputStageRefactor(scrs, current, mappings, last, lastTime, decoded, currentTime) ==
    LET r == IRCommandManager_handleCommand(mappings, last, lastTime, decoded, currentTime)
        h == Screen_handleInput(scrs[current + 1], decoded)
    IN  IF decoded = NoCode THEN NoInput(scrs, last, lastTime)
        ELSE IF ~r.ret /\ current < Len(scrs)
        THEN [screens |-> [scrs EXCEPT ![current + 1] = h.scr],
              lastCode |-> r.lastCode, lastCommandTime |-> r.lastCommandTime,
              ret |-> r.ret, invoked |-> r.invoked,
              input |-> <<current>>, fwd |-> h.fwd, cbs |-> h.cbs]
        ELSE [NoInput(scrs, r.lastCode, r.lastCommandTime)
                 EXCEPT !.ret = r.ret, !.invoked = r.invoked]

\* ui_framework.h update(), input stage: the event goes to the current Screen;
\* there is no IRCommandManager. Screen::handleInput ignores an event of type NONE.
InputStageOrig(scrs, current, last, lastTime, decoded) ==
    LET h == Screen_handleInput(scrs[current + 1], decoded)
    IN  IF decoded = NoCode THEN NoInput(scrs, last, lastTime)
        ELSE [NoInput([scrs EXCEPT ![current + 1] = h.scr], last, lastTime)
                 EXCEPT !.input = <<current>>, !.fwd = h.fwd, !.cbs = h.cbs]

\* update(), render stage: clearDisplay(), draw the current Screen, display()
RenderStage(scrs, current) ==
    IF current < Len(scrs)
    THEN LET old == scrs[current + 1].widgets
             r   == Screen_draw(scrs[current + 1])
             img == {[scr |-> current] @@ Widget_draw(old[r.drawn[k] + 1], r.drawn[k]) :
                        k \in 1..Len(r.drawn)}
         IN  [screens |-> [scrs EXCEPT ![current + 1].widgets = r.widgets],
              display |-> img, drawn |-> r.drawn]
    ELSE [screens |-> scrs, display |-> {}, drawn |-> <<>>]

-----------------------------------------------------------------------------
(* Operations on a Screen, with their history                              *)
(* (the one-Screen specifications keep the history of screens[1])          *)

\* what a widget shows: the claims' "observable state"
Shown(w) == <<w.focused, w.val>>

\* the last operation: its name, its code and focus direction, and the calls
\* it made: Screens and widgets handed the code, Button callbacks run, widgets
\* drawn, command handlers invoked; ret is handleCommand's result, index the
\* slot given to addScreen / setScreen, added the Screen given to addScreen,
\* deleted the Screens and widgets it deleted, work whether update() got
\* past its throttle and null tests, value the value given to a mutator
NoOp == [name |-> "none", code |-> NoCode, dir |-> 0, input |-> <<>>, fwd |-> <<>>,
         cbs |-> <<>>, drawn |-> <<>>, ret |-> FALSE, invoked |-> <<>>, index |-> 0,
         added |-> <<>>, deleted |-> [screens |-> <<>>, widgets |-> <<>>],
         work |-> FALSE, value |-> 0]

Op(name, code, dir) == [NoOp EXCEPT !.name = name, !.code = code, !.dir = dir]

NoRot == [start |-> 0, dir |-> 0, count |-> 0]

\* the history of a focus move in direction dir on Screen scr
Moved(scr, dir) ==
    IF scr.widgets = <<>> \/ "rot" \notin observe THEN UNCHANGED focusHist
    ELSE /\ navigated' = TRUE
         /\ rot' = IF rot.dir = dir /\ rot.count < Len(scr.widgets)
                   THEN [rot EXCEPT !.count = @ + 1]
                   ELSE [start |-> scr.focusedWidgetIndex, dir |-> dir, count |-> 1]

\* the history of what the widgets show, when old becomes new by an
\* operation other than draw
Kept(old, new) ==
    IF "unchanged" \notin observe THEN UNCHANGED drawHist
    ELSE /\ unchanged' = [i \in 1..Len(new) |->
                            /\ i <= Len(old)
                            /\ unchanged[i]
                            /\ Shown(new[i]) = Shown(old[i])]
         /\ UNCHANGED redrawn

AddWidget(s, kind) ==
    /\ Len(screens[s].widgets) < MaxWidgets
    /\ kind \in WidgetKinds
    /\ screens' = [screens EXCEPT ![s] = Screen_addWidget(@, NewWidget(kind))]
    /\ lastOp' = Op("addWidget", NoCode, 0)
    /\ rot' = NoRot
    /\ Kept(screens[s].widgets, screens'[s].widgets)
    /\ UNCHANGED <<variant, navigated, observe, now, cmdVars, uiVars>>

\* refactor: navigateUp() / navigateDown(); refactor2: navigate(direction).
\* In ui_framework.h changeFocus is private and reached through handleInput.
Navigate(s, direction) ==
    /\ variant # "orig"
    /\ screens' = [screens EXCEPT ![s] = Screen_changeFocus(@, direction)]
    /\ lastOp' = Op("navigate", NoCode, direction)
    /\ Moved(screens[s], direction)
    /\ Kept(screens[s].widgets, screens'[s].widgets)
    /\ UNCHANGED <<variant, observe, now, cmdVars, uiVars>>

HandleInput(s, code) ==
    LET r == Screen_handleInput(screens[s], code)
    IN  /\ screens' = [screens EXCEPT ![s] = r.scr]
        /\ lastOp' = [Op("handleInput", code, r.dir) EXCEPT !.fwd = r.fwd, !.cbs = r.cbs]
        /\ IF r.dir # 0 THEN Moved(screens[s], r.dir) ELSE UNCHANGED focusHist
        /\ Kept(screens[s].widgets, r.scr.widgets)
        /\ UNCHANGED <<variant, observe, now, cmdVars, uiVars>>

\* Screen::draw(display); the draw calls it makes are kept in lastOp.drawn
Draw(s) ==
    LET old == screens[s].widgets
        r   == Screen_draw(screens[s])
        D   == {r.drawn[k] : k \in 1..Len(r.drawn)}
    IN  /\ screens' = [screens EXCEPT ![s].widgets = r.widgets]
        /\ lastOp' = [Op("draw", NoCode, 0) EXCEPT !.drawn = r.drawn]
        /\ IF "unchanged" \in observe
           THEN /\ unchanged' = [i \in 1..Len(old) |-> (i - 1) \in D \/ unchanged[i]]
                /\ redrawn' = (redrawn \/ \E i \in D : unchanged[i + 1])
           ELSE UNCHANGED drawHist
        /\ UNCHANGED <<variant, observe, now, focusHist, cmdVars, uiVars>>

\* a value mutator called on widget i (0-based) by the application
Mutate(s, i, v) ==
    /\ i < Len(screens[s].widgets)
    /\ LET w == screens[s].widgets[i + 1]
           w2 == CASE w.kind = "Label" -> Label_setText(w, v)
                   [] w.kind = "BatteryWidget" -> BatteryWidget_updateValues(w, v)
                   [] w.kind = "Button" -> Button_setLabel(w, v)
                   [] w.kind = "FloatDisplay" -> FloatDisplay_setValue(w, v)
       IN  /\ (w.kind = "Button" => variant = "orig")
           /\ screens' = [screens EXCEPT ![s].widgets[i + 1] = w2]
           /\ lastOp' = [Op("mutate", NoCode, 0) EXCEPT !.fwd = <<i>>, !.value = v]
           /\ Kept(screens[s].widgets, screens'[s].widgets)
    /\ UNCHANGED <<variant, observe, now, focusHist, cmdVars, uiVars>>

ViewCodes == {UP, DOWN, OK, RED}

NoWork == -1

NoPrev == [code |-> NoCode, handler |-> 0, time |-> 0, repeats |-> 0]

InitCommon ==
    /\ currentScreenIndex = 0
    /\ display = {}
    /\ panel = {}
    /\ commandMappings = <<>>
    /\ lastCode = ZERO
    /\ lastCommandTime = 0
    /\ lastUpdateTime = 0
    /\ now = 0
    /\ lastOp = NoOp
    /\ rot = NoRot
    /\ navigated = FALSE
    /\ unchanged = <<>>
    /\ redrawn = FALSE
    /\ prev = NoPrev
    /\ lastWork = NoWork
    /\ held = NoCode

-----------------------------------------------------------------------------
(* SpecFocus: one Screen under addWidget, navigation, input and draw       *)

InitFocus ==
    /\ InitCommon
    /\ screens = <<NewScreen>>
    /\ variant \in Variants
    /\ observe = {"rot"}

NextFocus ==
    \/ \E kind \in {"Label", "Button"} : AddWidget(1, kind)
    \/ \E direction \in {-1, 1} : Navigate(1, direction)
    \/ \E code \in ViewCodes : HandleInput(1, code)
    \/ Draw(1)

SpecFocus == InitFocus /\ [][NextFocus]_vars

-----------------------------------------------------------------------------
(* SpecDirty: one short Screen with the value mutators                     *)

MaxDirtyWidgets == 2

InitDirty ==
    /\ InitCommon
    /\ screens = <<NewScreen>>
    /\ variant \in Variants
    /\ observe = {}

NextDirty ==
    \/ \E kind \in {"Label", "Button", "BatteryWidget", "FloatDisplay"} :
          /\ Len(screens[1].widgets) < MaxDirtyWidgets
          /\ AddWidget(1, kind)
    \/ \E direction \in {-1, 1} : Navigate(1, direction)
    \/ \E code \in ViewCodes : HandleInput(1, code)
    \/ Draw(1)
    \/ \E i \in 0..(MaxDirtyWidgets - 1), v \in Values : Mutate(1, i, v)

SpecDirty == InitDirty /\ [][NextDirty]_vars

-----------------------------------------------------------------------------
(* SpecRedraw: as SpecDirty, keeping which widgets are unchanged since drawn *)

InitRedraw ==
    /\ InitCommon
    /\ screens = <<NewScreen>>
    /\ variant \in Variants
    /\ observe = {"unchanged"}

SpecRedraw == InitRedraw /\ [][NextDirty]_vars

-----------------------------------------------------------------------------
(* Operations on the IRCommandManager, and the clock                       *)

MaxCommands == 3
MaxTime == 750

\* the history of a successful handleCommand: the code dispatched (for the
\* repeat code, the code it repeats), the handler invoked, the time, and how
\* many accepted repeats in a row this one ends
Dispatched(code, r) ==
    IF r.ret /\ "prev" \in observe
    THEN prev' = [code |-> IF code = REPEAT THEN prev.code ELSE code,
                  handler |-> IF r.invoked = <<>> THEN NullHandler ELSE r.invoked[1],
                  time |-> now,
                  repeats |-> IF code = REPEAT THEN prev.repeats + 1 ELSE 0]
    ELSE UNCHANGED prev

AddCommand(code, handler) ==
    /\ Len(commandMappings) < MaxCommands
    /\ commandMappings' = Append(commandMappings, Mapping(code, handler))
    /\ lastOp' = Op("addCommand", code, 0)
    /\ UNCHANGED <<variant, screens, lastCode, lastCommandTime, prev, now, observe,
                   focusHist, drawHist, uiVars>>

ClearCommands ==
    /\ commandMappings' = <<>>
    /\ lastOp' = Op("clearCommands", NoCode, 0)
    /\ UNCHANGED <<variant, screens, lastCode, lastCommandTime, prev, now, observe,
                   focusHist, drawHist, uiVars>>

HandleCommand(code) ==
    LET r == IRCommandManager_handleCommand(commandMappings, lastCode, lastCommandTime,
                                            code, now)
    IN  /\ lastCode' = r.lastCode
        /\ lastCommandTime' = r.lastCommandTime
        /\ lastOp' = [Op("handleCommand", code, 0) EXCEPT !.ret = r.ret,
                                                         !.invoked = r.invoked]
        /\ Dispatched(code, r)
        /\ UNCHANGED <<variant, screens, commandMappings, now, observe,
                       focusHist, drawHist, uiVars>>

\* millis() moves on by d
Advance(d) ==
    /\ now + d <= MaxTime
    /\ now' = now + d
    /\ lastOp' = Op("advance", NoCode, 0)
    /\ UNCHANGED <<variant, screens, observe, focusHist, drawHist, cmdVars, uiVars>>

\* codes the application registers: any 32-bit value but the reserved repeat code
RegCodes == {ZERO, RED}
\* codes the decoder delivers; OK is never registered as a command
CmdCodes == {ZERO, RED, OK, REPEAT}
\* one millisecond short of the repeat delay, and the repeat delay
TimeSteps == {REPEAT_DELAY - 1, REPEAT_DELAY}

-----------------------------------------------------------------------------
(* SpecCmd: one IRCommandManager under addCommand, clearCommands and       *)
(* handleCommand, with time passing                                        *)

InitCmd ==
    /\ InitCommon
    /\ screens = <<NewScreen>>
    /\ variant = "refactor"
    /\ observe = {"prev"}

NextCmd ==
    \/ \E code \in RegCodes, handler \in Handlers : AddCommand(code, handler)
    \/ ClearCommands
    \/ \E code \in CmdCodes : HandleCommand(code)
    \/ \E d \in TimeSteps : Advance(d)

SpecCmd == InitCmd /\ [][NextCmd]_vars

-----------------------------------------------------------------------------
(* Operations on the UIManager                                             *)

\* enum ScreenType { MAIN_SCREEN, GRAPH_SCREEN }: the slots of ui_framework.h;
\* the refactors have the same two Screens, MainScreen and GraphScreen
ScreenTypes == {0, 1}

\* a Screen as its constructor leaves it: the widgets of these kinds added in order
RECURSIVE BuildScreen(_)
BuildScreen(kinds) ==
    IF kinds = <<>> THEN NewScreen
    ELSE Screen_addWidget(BuildScreen(SubSeq(kinds, 1, Len(kinds) - 1)),
                          NewWidget(kinds[Len(kinds)]))

ScreenShapes == {<<>>, <<"Button">>, <<"Label", "Button">>}

\* ui_framework.h: addScreen(type, screen); refactors: addScreen(screen)
AddScreen(type, kinds) ==
    /\ screens' = IF variant = "orig"
                  THEN UIManager_addScreenOrig(screens, type, BuildScreen(kinds))
                  ELSE UIManager_addScreenRefactor(screens, BuildScreen(kinds))
    /\ Len(screens') <= Cardinality(ScreenTypes)
    /\ (variant # "orig" => type = Len(screens))
    /\ lastOp' = [Op("addScreen", NoCode, 0) EXCEPT
                     !.index = type, !.added = <<BuildScreen(kinds)>>,
                     !.deleted = IF variant = "orig"
                                 THEN UIManager_addScreenOrigDeleted(screens, type)
                                 ELSE @]
    /\ UNCHANGED <<variant, observe, now, focusHist, drawHist, cmdVars, uiVars>>

SetScreen(index) ==
    LET r == UIManager_setScreen(screens, currentScreenIndex, display, index)
    IN  /\ currentScreenIndex' = r.current
        /\ display' = r.display
        /\ lastOp' = [Op("setScreen", NoCode, 0) EXCEPT !.index = index]
        /\ UNCHANGED <<variant, screens, observe, now, panel, lastUpdateTime, lastWork,
                       held, focusHist, drawHist, cmdVars>>

\* update() of the refactors, with the code the receiver has decoded (NoCode: none)
UpdateRefactor(decoded) ==
    LET i == InputStageRefactor(screens, currentScreenIndex, commandMappings,
                                lastCode, lastCommandTime, decoded, now)
        d == RenderStage(i.screens, currentScreenIndex)
    IN  /\ variant # "orig"
        /\ screens' = d.screens
        /\ lastCode' = i.lastCode
        /\ lastCommandTime' = i.lastCommandTime
        /\ display' = d.display
        /\ panel' = d.display
        /\ lastOp' = [Op("update", decoded, 0) EXCEPT
                         !.ret = i.ret, !.invoked = i.invoked, !.input = i.input,
                         !.fwd = i.fwd, !.cbs = i.cbs, !.drawn = d.drawn,
                         !.work = TRUE]
        /\ Dispatched(decoded, i)
        /\ held' = IF "held" \in observe /\ decoded \notin {NoCode, REPEAT}
                   THEN decoded ELSE held
        /\ UNCHANGED <<variant, commandMappings, currentScreenIndex, lastUpdateTime,
                       lastWork, observe, now, focusHist, drawHist>>

\* update() of ui_framework.h: nothing within UPDATE_INTERVAL of the last
\* update; nothing but the time stamp without a current Screen; the widgets'
\* update() are all empty
UpdateOrig(decoded) ==
    LET due == UIManager_updateDue(now, lastUpdateTime)
        scr == UIManager_getScreen(screens, currentScreenIndex)
        i == InputStageOrig(screens, currentScreenIndex, lastCode, lastCommandTime, decoded)
        d == RenderStage(i.screens, currentScreenIndex)
    IN  /\ variant = "orig"
        /\ IF ~due
           THEN /\ lastOp' = Op("update", NoCode, 0)
                /\ UNCHANGED <<screens, display, panel, lastUpdateTime, lastWork>>
           ELSE IF scr = NullScreen
           THEN /\ lastUpdateTime' = now
                /\ lastOp' = Op("update", NoCode, 0)
                /\ UNCHANGED <<screens, display, panel, lastWork>>
           ELSE /\ lastUpdateTime' = now
                /\ lastWork' = now
                /\ screens' = d.screens
                /\ display' = d.display
                /\ panel' = d.display
                /\ lastOp' = [Op("update", decoded, 0) EXCEPT
                                 !.input = i.input, !.fwd = i.fwd, !.cbs = i.cbs,
                                 !.drawn = d.drawn, !.work = TRUE]
        /\ UNCHANGED <<variant, currentScreenIndex, observe, now, focusHist, drawHist,
                       cmdVars, held>>

\* codes the application registers as commands in the UIManager specification
UiRegCodes == {RED, OK}
\* codes the receiver decodes
UiCodes == {UP, OK, RED, REPEAT}
\* millis() between calls: around UPDATE_INTERVAL where update() is throttled,
\* around REPEAT_DELAY where it dispatches commands
UiTimeSteps == IF variant = "orig" THEN {UPDATE_INTERVAL - 1, UPDATE_INTERVAL}
               ELSE TimeSteps

-----------------------------------------------------------------------------
(* SpecUI: a UIManager with its Screens and, in the refactors, its         *)
(* IRCommandManager, driven by update()                                    *)

MaxUiCommands == 1
MaxUiTime == 250
MaxUiIntervals == 2

\* how far millis() runs: MaxUiIntervals update intervals in the throttled
\* variant, MaxUiTime in the others
UiTimeLimit == IF variant = "orig" THEN MaxUiIntervals * UPDATE_INTERVAL ELSE MaxUiTime

InitUI ==
    /\ InitCommon
    /\ screens = <<>>
    /\ variant \in Variants
    /\ observe = {}

NextUI ==
    \/ \E type \in ScreenTypes, kinds \in ScreenShapes : AddScreen(type, kinds)
    \/ \E index \in ScreenTypes \cup {Cardinality(ScreenTypes)} : SetScreen(index)
    \/ \E code \in UiRegCodes :
          /\ variant # "orig"
          /\ Len(commandMappings) < MaxUiCommands
          /\ AddCommand(code, 1)
    \/ \E decoded \in UiCodes \cup {NoCode} : UpdateRefactor(decoded)
    \/ \E decoded \in UiCodes \cup {NoCode} : UpdateOrig(decoded)
    \/ \E d \in UiTimeSteps : now + d <= UiTimeLimit /\ Advance(d)

SpecUI == InitUI /\ [][NextUI]_vars

-----------------------------------------------------------------------------
(* SpecHeld: as SpecUI, keeping which button the receiver last reported    *)

InitHeld ==
    /\ InitCommon
    /\ screens = <<>>
    /\ variant \in Variants
    /\ observe = {"held"}

SpecHeld == InitHeld /\ [][NextUI]_vars

-----------------------------------------------------------------------------
(* Properties                                                              *)

ws == screens[1].widgets
n == Len(screens[1].widgets)
f == screens[1].focusedWidgetIndex

\* C1: on a non-empty Screen built by addWidget and focus moves, the focus
\* index is a valid index, exactly one widget is focused, it is the one at the
\* focus index, and until a focus move it is the first widget added.
C1_FocusInvariant ==
    n >= 1 =>
        /\ f \in 0..(n - 1)
        /\ {i \in 1..n : ws[i].focused} = {f + 1}
        /\ (~navigated => f = 0)

\* C1 witness: three widgets, focus moved off the first to the last
C1_Witness == n = 3 /\ navigated /\ f = 2 /\ ws[3].focused /\ ~ws[1].focused

\* C5 as stated: in every variant handleInput(UP/DOWN) moves the focus by
\* -1/+1 and hands the code to no widget; any other code goes to the focused
\* widget and the focus index stays.
C5_Original ==
    [][(lastOp'.name = "handleInput" /\ n >= 1) =>
         IF lastOp'.code = UP
         THEN screens'[1].focusedWidgetIndex = (f + n - 1) % n /\ lastOp'.fwd = <<>>
         ELSE IF lastOp'.code = DOWN
         THEN screens'[1].focusedWidgetIndex = (f + 1) % n /\ lastOp'.fwd = <<>>
         ELSE screens'[1].focusedWidgetIndex = f /\ lastOp'.fwd = <<f>>]_vars

\* C5 amended: ui_framework.h intercepts UP/DOWN as above; the two refactored
\* Screens hand every code, UP and DOWN included, to the focused widget and
\* leave the focus index alone.
C5_Amended ==
    [][(lastOp'.name = "handleInput" /\ n >= 1) =>
         IF variant = "orig" /\ lastOp'.code = UP
         THEN screens'[1].focusedWidgetIndex = (f + n - 1) % n /\ lastOp'.fwd = <<>>
         ELSE IF variant = "orig" /\ lastOp'.code = DOWN
         THEN screens'[1].focusedWidgetIndex = (f + 1) % n /\ lastOp'.fwd = <<>>
         ELSE screens'[1].focusedWidgetIndex = f /\ lastOp'.fwd = <<f>>]_vars

\* C5 witness: a refactored Screen has handed UP to its focused widget
C5_Witness ==
    /\ variant = "refactor2" /\ n = 3
    /\ lastOp.name = "handleInput" /\ lastOp.code = UP /\ lastOp.fwd = <<1>> /\ f = 1

\* C8: a run of k <= n focus moves in one direction from index s ends at
\* (s + k*direction) mod n, so +1 from n-1 gives 0, -1 from 0 gives n-1, the
\* index stays in 0..n-1, and after n moves the focus is back at s.
C8_FullRotation ==
    (n >= 1 /\ rot.count >= 1) =>
        /\ f \in 0..(n - 1)
        /\ f = (rot.start + rot.dir * rot.count + n) % n
        /\ (rot.count = n => f = rot.start)

\* C8 witness: three moves of -1 on three widgets, starting at 1 and wrapping at 0
C8_Witness == n = 3 /\ rot.count = 3 /\ rot.dir = -1 /\ rot.start = 1 /\ f = 1

\* C6: after Screen::draw no widget is dirty, and a widget that was not dirty
\* before the call was not drawn by it.
C6_DrawClearsDirty ==
    [][lastOp'.name = "draw" =>
         /\ \A i \in 1..n : ~screens'[1].widgets[i].dirty
         /\ \A k \in 1..Len(lastOp'.drawn) : ws[lastOp'.drawn[k] + 1].dirty]_vars

\* C6 witness: a draw of a two-widget Screen drew the second widget only
C6_Witness ==
    /\ lastOp.name = "draw" /\ n = 2 /\ lastOp.drawn = <<1>>
    /\ ~ws[1].dirty /\ ~ws[2].dirty

\* C7 as stated: no widget is drawn a second time when no operation since
\* its previous draw has changed its focused flag or its value.
C7_NoRedundantDraw == ~redrawn

Registered(code) == \E i \in 1..Len(commandMappings) : commandMappings[i].code = code

\* the handler of the first mapping registered for a code
FirstHandler(code) ==
    LET first == CHOOSE i \in 1..Len(commandMappings) :
                    /\ commandMappings[i].code = code
                    /\ \A j \in 1..(i - 1) : commandMappings[j].code # code
    IN  commandMappings[first].handler

\* a repeat code that section 4.3 accepts: a code was dispatched before, it
\* is still registered, and at least REPEAT_DELAY has passed since
ValidRepeat(code) ==
    /\ code = REPEAT
    /\ prev # NoPrev
    /\ Registered(prev.code)
    /\ now - prev.time >= REPEAT_DELAY

\* C2 as stated: handleCommand(code) returns true iff code is a registered
\* code or a valid repeat of the last dispatched code, and returns false for
\* every code when the table is empty.
C2_DispatchResult ==
    [][lastOp'.name = "handleCommand" =>
         /\ lastOp'.ret <=> (Registered(lastOp'.code) \/ ValidRepeat(lastOp'.code))
         /\ (commandMappings = <<>> => ~lastOp'.ret)]_vars

\* C3 as stated: after a registered code C was dispatched at t0 with no
\* successful dispatch since, the repeat code at t0 + REPEAT_DELAY - 1 returns
\* false and invokes nothing, and at t0 + REPEAT_DELAY or later it returns true
\* and invokes C's handler.
C3_RepeatWindow ==
    [][(/\ lastOp'.name = "handleCommand" /\ lastOp'.code = REPEAT
        /\ prev # NoPrev /\ Registered(prev.code)) =>
         /\ (now - prev.time = REPEAT_DELAY - 1 =>
                ~lastOp'.ret /\ lastOp'.invoked = <<>>)
         /\ (now - prev.time >= REPEAT_DELAY =>
                lastOp'.ret /\ lastOp'.invoked = <<FirstHandler(prev.code)>>)]_vars

\* C9: a handleCommand that returns false has invoked no handler and has left
\* lastCode and lastCommandTime as they were.
C9_FalseChangesNothing ==
    [][(lastOp'.name = "handleCommand" /\ ~lastOp'.ret) =>
         /\ lastOp'.invoked = <<>>
         /\ lastCode' = lastCode
         /\ lastCommandTime' = lastCommandTime]_vars

\* C9 witness: a repeat code rejected inside the delay window of an earlier
\* dispatch, at a later time than that dispatch
C9_Witness ==
    /\ lastOp.name = "handleCommand" /\ lastOp.code = REPEAT /\ ~lastOp.ret
    /\ lastCode = RED /\ now = lastCommandTime + REPEAT_DELAY - 1

\* C10: every successful handleCommand, direct or by an accepted repeat,
\* invokes exactly one handler: that of the first mapping registered for the
\* code dispatched.
C10_FirstRegisteredWins ==
    (lastOp.name = "handleCommand" /\ lastOp.ret) =>
        /\ Registered(lastCode)
        /\ lastOp.code \in {lastCode, REPEAT}
        /\ lastOp.invoked = <<FirstHandler(lastCode)>>

\* C10 witness: two handlers registered for RED, and an accepted repeat of RED
\* has invoked the first
C10_Witness ==
    /\ commandMappings = <<Mapping(RED, 2), Mapping(RED, 1)>>
    /\ lastOp.name = "handleCommand" /\ lastOp.code = REPEAT /\ lastOp.ret
    /\ lastOp.invoked = <<2>>

\* C11: a handler invoked for the repeat code runs at least REPEAT_DELAY after
\* the last successful handleCommand before it, be that of a code or of an
\* accepted repeat; so a held button runs its command at most once per
\* REPEAT_DELAY.
C11_RepeatRateLimited ==
    [][(/\ lastOp'.name = "handleCommand" /\ lastOp'.code = REPEAT
        /\ (lastOp'.ret \/ lastOp'.invoked # <<>>)) =>
         /\ prev # NoPrev
         /\ now' - prev.time >= REPEAT_DELAY
         /\ prev'.time = now']_vars

\* C11 witness: the second accepted repeat in a row, REPEAT_DELAY after the first
C11_Witness ==
    /\ lastOp.name = "handleCommand" /\ lastOp.code = REPEAT /\ lastOp.ret
    /\ lastOp.invoked # <<>>
    /\ prev.repeats = 2 /\ prev.time = now /\ now = 2 * REPEAT_DELAY

-----------------------------------------------------------------------------
(* Properties of UIManager::update (SpecUI)                                *)

\* C4: one update() considers at most one decoded code and resolves it to at
\* most one handler. When handleCommand matched, its handler ran and the
\* current Screen's handleInput was not called; handleInput of the current
\* Screen is called, once, only for a decoded code that handleCommand rejected.
C4_OneCodeOneHandler ==
    lastOp.name = "update" =>
        /\ Len(lastOp.input) <= 1
        /\ Len(lastOp.invoked) + Len(lastOp.cbs) <= 1
        /\ lastOp.ret =>
              /\ Len(lastOp.invoked) = 1
              /\ lastOp.input = <<>> /\ lastOp.fwd = <<>> /\ lastOp.cbs = <<>>
        /\ lastOp.input # <<>> =>
              /\ lastOp.code # NoCode
              /\ ~lastOp.ret /\ lastOp.invoked = <<>>
              /\ lastOp.input = <<currentScreenIndex>>
        /\ (variant # "orig" /\ lastOp.code # NoCode /\ ~lastOp.ret
               /\ currentScreenIndex < Len(screens)) =>
              lastOp.input = <<currentScreenIndex>>

\* C4 witness: OK is a registered command and the current Screen's focused
\* widget is a Button, which OK would press; update() with OK decoded has run
\* the command's handler and has not called the Screen
C4_Witness ==
    /\ variant # "orig"
    /\ lastOp.name = "update" /\ lastOp.code = OK
    /\ lastOp.ret /\ lastOp.invoked = <<1>> /\ lastOp.cbs = <<>>
    /\ currentScreenIndex < Len(screens)
    /\ LET scr == screens[currentScreenIndex + 1]
       IN  /\ scr.widgets # <<>>
           /\ scr.widgets[scr.focusedWidgetIndex + 1].kind = "Button"
           /\ scr.widgets[scr.focusedWidgetIndex + 1].focused

\* a slot that holds a Screen: inside the vector and, in ui_framework.h, not nullptr
Populated(index) == index < Len(screens) /\ screens[index + 1] # NullScreen

\* C12 as stated: setScreen on a populated slot makes that slot's Screen the
\* current one and clears the frame buffer, so nothing drawn for the Screen
\* shown before is left in it.
C12_SetScreenClears ==
    [][(lastOp'.name = "setScreen" /\ Populated(lastOp'.index)) =>
         /\ currentScreenIndex' = lastOp'.index
         /\ display' = {}]_vars

\* C13: setScreen on a slot past the end of the vector, or on a slot holding
\* nullptr, leaves the current Screen selector and the frame buffer as they were.
C13_SetScreenUnpopulated ==
    [][(lastOp'.name = "setScreen" /\ ~Populated(lastOp'.index)) =>
         /\ currentScreenIndex' = currentScreenIndex
         /\ display' = display]_vars

\* C13 witness: ui_framework.h, slot 0 holds nullptr below the Screen in slot 1,
\* whose widgets are in the frame buffer; setScreen(0) was called
C13_Witness ==
    /\ variant = "orig"
    /\ lastOp.name = "setScreen" /\ lastOp.index = 0
    /\ Len(screens) = 2 /\ screens[1] = NullScreen
    /\ currentScreenIndex = 1 /\ display # {}

\* C15: an update() that hands its code to the Screens hands it to the current
\* Screen only, and that Screen to at most one widget: the one at its focus
\* index, which is focused. A Button callback runs only for that widget, when
\* it is a Button and the code is OK.
C15_FocusedOnly ==
    [][(lastOp'.name = "update" /\ lastOp'.input # <<>>) =>
         LET scr == screens[currentScreenIndex + 1]
             fi  == scr.focusedWidgetIndex
         IN  /\ lastOp'.input = <<currentScreenIndex>>
             /\ \A s \in 1..Len(screens) :
                   (s # currentScreenIndex + 1 /\ screens[s] # NullScreen) =>
                       screens'[s] = screens[s]
             /\ lastOp'.fwd \in {<<>>, <<fi>>}
             /\ lastOp'.fwd # <<>> => (fi < Len(scr.widgets) /\ scr.widgets[fi + 1].focused)
             /\ lastOp'.cbs # <<>> =>
                   /\ lastOp'.cbs = <<fi>> /\ lastOp'.fwd = <<fi>>
                   /\ scr.widgets[fi + 1].kind = "Button"
                   /\ lastOp'.code = OK]_vars

\* C15 witness: ui_framework.h, two Screens with a Button each; the current
\* one has its focus on its second widget, a Button, and update() with OK has
\* run that Button's callback and no other
C15_Witness ==
    /\ variant = "orig" /\ Len(screens) = 2 /\ currentScreenIndex = 1
    /\ screens[1] = BuildScreen(<<"Button">>)
    /\ screens[2] # NullScreen /\ Len(screens[2].widgets) = 2
    /\ screens[2].focusedWidgetIndex = 1
    /\ lastOp.name = "update" /\ lastOp.code = OK
    /\ lastOp.input = <<1>> /\ lastOp.fwd = <<1>> /\ lastOp.cbs = <<1>>

-----------------------------------------------------------------------------
(* Properties of one Screen, continued (SpecFocus, SpecDirty)              *)

\* C14: on a Screen of two or more widgets a focus move (navigate, navigateUp,
\* navigateDown, or UP / DOWN through the handleInput of ui_framework.h)
\* changes two widgets only: the one focused before is now unfocused and
\* dirty, the one focused now is focused and dirty; every other widget, and
\* the order of the widgets, is as before. From the first of three widgets,
\* moves of +1 focus the second, the third, then the first again.
C14_NavigateFrame ==
    [][(lastOp'.dir # 0 /\ n >= 2) =>
         LET new == screens'[1].focusedWidgetIndex
             ws2 == screens'[1].widgets
         IN  /\ new = (f + lastOp'.dir + n) % n
             /\ Len(ws2) = n
             /\ ws2[f + 1] = [ws[f + 1] EXCEPT !.focused = FALSE, !.dirty = TRUE]
             /\ ws2[new + 1] = [ws[new + 1] EXCEPT !.focused = TRUE, !.dirty = TRUE]
             /\ \A i \in 1..n : (i # f + 1 /\ i # new + 1) => ws2[i] = ws[i]
             /\ (n = 3 /\ rot'.start = 0 /\ rot'.dir = 1) => new = rot'.count % 3]_vars

\* C14 witness: three widgets of differing kinds; the third navigate(+1) from
\* the first widget has wrapped to it, and the second widget, drawn before
\* the move, is still clean
C14_Witness ==
    /\ variant = "refactor2" /\ n = 3
    /\ lastOp.name = "navigate" /\ lastOp.dir = 1
    /\ rot.start = 0 /\ rot.dir = 1 /\ rot.count = 3 /\ f = 0
    /\ ws[1].kind = "Label" /\ ws[2].kind = "Button"
    /\ ws[1].focused /\ ws[1].dirty /\ ws[3].dirty /\ ~ws[3].focused
    /\ ~ws[2].dirty /\ ~ws[2].focused

\* C16: a widget's dirty flag goes from true to false only in Screen::draw
\* (called directly or by update()), and only for a widget that this draw has
\* drawn; addWidget, the focus moves, handleInput, the value mutators,
\* setScreen and addScreen clear no flag, and a widget is dirty when added.
C16_DirtyClearedByDrawOnly ==
    [][\A s \in 1..Len(screens) :
         (screens[s] # NullScreen /\ s <= Len(screens') /\ screens'[s] # NullScreen) =>
            LET old == screens[s].widgets
                new == screens'[s].widgets
            IN  /\ \A i \in 1..Len(old) :
                      (i <= Len(new) /\ old[i].dirty /\ ~new[i].dirty) =>
                          /\ lastOp'.name \in {"draw", "update"}
                          /\ s = currentScreenIndex + 1
                          /\ \E k \in 1..Len(lastOp'.drawn) : lastOp'.drawn[k] = i - 1
                /\ \A i \in (Len(old) + 1)..Len(new) : new[i].dirty]_vars

\* C16 witness: a draw has drawn both widgets of a Screen, a Label whose text
\* was changed and a BatteryWidget, and both are clean
C16_Witness ==
    /\ lastOp.name = "draw" /\ lastOp.drawn = <<0, 1>> /\ n = 2
    /\ ws[1].kind = "Label" /\ ws[1].val = 1 /\ ws[2].kind = "BatteryWidget"
    /\ ~ws[1].dirty /\ ~ws[2].dirty

\* C18: on a Screen without widgets the focus moves, handleInput with any
\* code (UP and DOWN included) and draw do nothing: the focus index stays 0,
\* the Screen is as before, and no widget is indexed, handed a code or drawn.
C18_EmptyScreenNoOp ==
    [][(n = 0 /\ lastOp'.name \in {"navigate", "handleInput", "draw"}) =>
         /\ f = 0
         /\ screens'[1] = screens[1]
         /\ lastOp'.fwd = <<>> /\ lastOp'.cbs = <<>> /\ lastOp'.drawn = <<>>]_vars

\* C18 witness: the Screen of ui_framework.h, empty, has been given the UP code
C18_Witness ==
    /\ variant = "orig" /\ n = 0 /\ f = 0
    /\ lastOp.name = "handleInput" /\ lastOp.code = UP /\ lastOp.dir = -1

-----------------------------------------------------------------------------
(* Properties of the UIManager, continued (SpecUI)                         *)

\* C17: after addScreen(type, screen) of ui_framework.h the slot holds screen;
\* the Screen that was in the slot, if any, has been deleted and with it its
\* widgets, and nothing else has; every other slot and the current Screen
\* selector are as before; the slots the vector grew by below type hold nullptr.
C17_AddScreenReplaces ==
    [][(lastOp'.name = "addScreen" /\ variant = "orig") =>
         LET type == lastOp'.index
             had  == type < Len(screens) /\ screens[type + 1] # NullScreen
         IN  /\ Len(screens') = IF type < Len(screens) THEN Len(screens) ELSE type + 1
             /\ <<screens'[type + 1]>> = lastOp'.added
             /\ screens'[type + 1] # NullScreen
             /\ had => /\ lastOp'.deleted.screens = <<screens[type + 1]>>
                       /\ lastOp'.deleted.widgets = screens[type + 1].widgets
             /\ ~had => /\ lastOp'.deleted.screens = <<>>
                        /\ lastOp'.deleted.widgets = <<>>
             /\ \A s \in 1..Len(screens) : s # type + 1 => screens'[s] = screens[s]
             /\ \A s \in (Len(screens) + 1)..type : screens'[s] = NullScreen
             /\ currentScreenIndex' = currentScreenIndex]_vars

\* C17 witness: slot 0 held a Screen of two widgets, with the focus moved to
\* the second, while slot 1 holds the current Screen; addScreen(0, ...) has
\* deleted the old Screen and its two widgets and put a Screen of one Button there
C17_Witness ==
    /\ variant = "orig" /\ lastOp.name = "addScreen" /\ lastOp.index = 0
    /\ Len(lastOp.deleted.screens) = 1 /\ Len(lastOp.deleted.widgets) = 2
    /\ lastOp.deleted.screens[1].focusedWidgetIndex = 1
    /\ Len(screens) = 2 /\ screens[1] = BuildScreen(<<"Button">>)
    /\ screens[2] # NullScreen /\ currentScreenIndex = 1

\* C19: an update() whose decoded code no command matches and the Screen does
\* not consume (it is not a navigation code of ui_framework.h and triggers no
\* callback of the focused widget) drops the code: every Screen's focus index
\* and every widget's focused flag, the current Screen selector, lastCode and
\* lastCommandTime are as before, and no handler and no callback has run.
C19_UnmatchedDropped ==
    [][(/\ lastOp'.name = "update" /\ lastOp'.code # NoCode
        /\ ~lastOp'.ret /\ lastOp'.cbs = <<>>
        /\ ~(variant = "orig" /\ lastOp'.code \in {UP, DOWN})) =>
         /\ lastOp'.invoked = <<>>
         /\ currentScreenIndex' = currentScreenIndex
         /\ lastCode' = lastCode
         /\ lastCommandTime' = lastCommandTime
         /\ Len(screens') = Len(screens)
         /\ \A s \in 1..Len(screens) :
               IF screens[s] = NullScreen THEN screens'[s] = NullScreen
               ELSE /\ screens'[s] # NullScreen
                    /\ screens'[s].focusedWidgetIndex = screens[s].focusedWidgetIndex
                    /\ Len(screens'[s].widgets) = Len(screens[s].widgets)
                    /\ \A i \in 1..Len(screens[s].widgets) :
                          /\ screens'[s].widgets[i].focused = screens[s].widgets[i].focused
                          /\ screens'[s].widgets[i].val = screens[s].widgets[i].val]_vars

\* C19 witness: OK is the one command and was dispatched before; update() with
\* RED decoded has handed RED to the focused Button, which ignored it
C19_Witness ==
    /\ variant = "refactor" /\ commandMappings = <<Mapping(OK, 1)>>
    /\ lastCode = OK /\ now > lastCommandTime
    /\ lastOp.name = "update" /\ lastOp.code = RED /\ ~lastOp.ret
    /\ lastOp.input = <<currentScreenIndex>> /\ lastOp.fwd = <<0>> /\ lastOp.cbs = <<>>
    /\ screens[currentScreenIndex + 1].widgets[1].kind = "Button"

\* C20: the update() of ui_framework.h, called less than UPDATE_INTERVAL after
\* the last update() that did its work, changes nothing: no code is decoded
\* or handed on, nothing is drawn, the frame buffer and the panel are as
\* before and lastUpdateTime is not advanced. So two update() calls that do
\* their work are at least UPDATE_INTERVAL apart.
C20_Throttle ==
    [][(lastOp'.name = "update" /\ variant = "orig" /\ lastWork # NoWork) =>
         /\ now - lastWork < UPDATE_INTERVAL =>
               /\ ~lastOp'.work
               /\ lastOp'.code = NoCode /\ lastOp'.input = <<>> /\ lastOp'.fwd = <<>>
               /\ lastOp'.cbs = <<>> /\ lastOp'.drawn = <<>>
               /\ UNCHANGED <<screens, currentScreenIndex, display, panel, lastUpdateTime,
                              commandMappings, lastCode, lastCommandTime, now>>
         /\ lastOp'.work => now - lastWork >= UPDATE_INTERVAL]_vars

\* C20 witness: an update() called 49 ms after one that did its work has
\* returned at once, leaving a dirty widget of the current Screen undrawn and
\* the frame buffer as it was
C20_Witness ==
    /\ variant = "orig" /\ lastOp.name = "update" /\ ~lastOp.work
    /\ lastWork # NoWork /\ now = lastWork + UPDATE_INTERVAL - 1
    /\ lastUpdateTime = lastWork
    /\ display # {}
    /\ Populated(currentScreenIndex)
    /\ \E i \in 1..Len(screens[currentScreenIndex + 1].widgets) :
          screens[currentScreenIndex + 1].widgets[i].dirty

\* what the panel shows when every widget of Screen number current is on it
\* as it is now
FullFrame(current) ==
    {[scr |-> current] @@ Widget_draw(screens[current + 1].widgets[i], i - 1) :
        i \in 1..Len(screens[current + 1].widgets)}

\* C21 as stated: after an update() that reaches display.display(), the frame
\* sent to the panel holds every widget of the current Screen as it is now,
\* the widgets that were not dirty before the update() included.
C21_FrameComplete ==
    (lastOp.name = "update" /\ lastOp.work /\ Populated(currentScreenIndex)) =>
        panel = FullFrame(currentScreenIndex)

\* C22 as stated: when update() with the repeat code decoded runs a command
\* handler, the command is the one registered for the last code other than
\* the repeat code that update() decoded (the button held). So a repeat code
\* after a code that no command matched runs no command handler.
C22_RepeatsHeldButton ==
    [][(lastOp'.name = "update" /\ lastOp'.code = REPEAT /\ lastOp'.invoked # <<>>) =>
         /\ held # NoCode
         /\ Registered(held)
         /\ lastCode' = held
         /\ lastOp'.invoked = <<FirstHandler(held)>>]_vars

-----------------------------------------------------------------------------
(* Properties of the value mutators (SpecDirty)                            *)

\* C23: Label::setText and FloatDisplay::setValue called with a value other
\* than the stored one store it and set dirty; called with the stored value
\* they leave the value and the dirty flag as they were; they never change
\* the focused flag, and no other widget.
C23_MutatorsDirtyOnChange ==
    [][(/\ lastOp'.name = "mutate"
        /\ ws[lastOp'.fwd[1] + 1].kind \in {"Label", "FloatDisplay"}) =>
         LET i   == lastOp'.fwd[1] + 1
             v   == lastOp'.value
             old == ws[i]
             new == screens'[1].widgets[i]
         IN  /\ new.focused = old.focused /\ new.kind = old.kind
             /\ new.val = v
             /\ v # old.val => new.dirty
             /\ v = old.val => new.dirty = old.dirty
             /\ \A j \in 1..n : j # i => screens'[1].widgets[j] = ws[j]
             /\ screens'[1].focusedWidgetIndex = f]_vars

\* C23 witness: setValue with the value it already shows was called on a
\* clean, focused FloatDisplay whose value had been changed and drawn, and it
\* is still clean
C23_Witness ==
    /\ lastOp.name = "mutate" /\ lastOp.fwd = <<0>> /\ lastOp.value = 1
    /\ n = 2 /\ ws[1].kind = "FloatDisplay" /\ ws[1].val = 1
    /\ ws[1].focused /\ ~ws[1].dirty /\ ws[2].kind = "Label"

====
